---- MODULE Spec2Model ----
(***************************************************************************)
(* A model of the two input masks of javascript-masks:                     *)
(*   PhoneNumberMask (src/phone-mask.js) and MoneyMask (src/money-mask.js).*)
(*                                                                         *)
(* Text is a sequence of one-character strings.  Offsets into text (cursor *)
(* positions, mask indices, activeMaskIndex) keep JavaScript's 0-based     *)
(* values; s[i + 1] is JavaScript's s[i].                                  *)
(***************************************************************************)
EXTENDS Integers, Sequences, FiniteSets, TLC

VARIABLES
    callerOptions,    \* the options argument the constructor was given
    masksData,        \* this.masksData: the parsed candidate templates
    messages,         \* this.options.messages
    languages,        \* navigator.languages
    value,            \* this.input.value of the phone field
    selectionStart,   \* this.input.selectionStart
    selectionEnd,     \* this.input.selectionEnd
    activeMaskIndex,  \* this.activeMaskIndex (-1: none)
    customValidity,   \* the field's custom validity message ("" = valid)
    raised,           \* the error the last handler raised ("none" if it completed)
    lastOp,           \* history: the last operation delivered to the phone mask
    lastText,         \* history: the text that operation was given
    seenDigits,       \* history: the digit string of the last selection loop
    seenFormatted,    \* history: `formatted` of every candidate in that loop
    lastOffset,       \* history: the offsets of the last setCursorPositionInFormatted
    rawEdits,         \* consecutive input events handleInput has ignored
    lastKey,          \* history: the last keydown and the field it was delivered to
    mOptions,         \* MoneyMask this.options
    mValue,           \* MoneyMask this.input.value
    mReturned,        \* what the last MoneyMask.getValue() returned
    mLastOp,          \* history: the last MoneyMask operation
    mLastArg          \* history: the amount given to the last MoneyMask.setValue

phoneVars == <<callerOptions, masksData, messages, languages, value, selectionStart, selectionEnd,
               activeMaskIndex, customValidity, raised, lastOp, lastText,
               seenDigits, seenFormatted, lastOffset, rawEdits, lastKey>>
moneyVars == <<mOptions, mValue, mReturned, mLastOp, mLastArg>>
vars == <<phoneVars, moneyVars>>

----------------------------------------------------------------------------
(* Text helpers *)

DigitChars == <<"0", "1", "2", "3", "4", "5", "6", "7", "8", "9">>

\* \d of the regular expressions
IsDigit(c) == \E k \in 1..Len(DigitChars) : DigitChars[k] = c

\* s.replace(/\D/g, '')
StripNonDigits(s) == SelectSeq(s, IsDigit)

\* s.slice(from, to) for 0 <= from, to
Slice(s, from, to) ==
    LET t == IF to > Len(s) THEN Len(s) ELSE to
    IN  IF from >= t THEN <<>> ELSE SubSeq(s, from + 1, t)

\* s.slice(from)
SliceFrom(s, from) == Slice(s, from, Len(s))

Abs(n) == IF n < 0 THEN -n ELSE n

Min(a, b) == IF a < b THEN a ELSE b

SeqsUpTo(S, n) == UNION {[1..k -> S] : k \in 0..n}

----------------------------------------------------------------------------
(* PhoneNumberMask: parseMask *)

placeholderChar == "#"

\* escapeRegExp: every literal of the mask becomes a pattern element that
\* matches exactly that character.
escapeRegExp(c) == [digit |-> FALSE, optional |-> FALSE, ch |-> c]

\* The pattern parseMask builds between '^' and '$': one element per mask
\* character, (\d?) for a placeholder and the escaped literal otherwise.
\* A pattern whose placeholders demand a digit: (\d) for (\d?).
RegexStrDemandingDigits(mask) ==
    [i \in 1..Len(mask) |->
        IF mask[i] = placeholderChar THEN [digit |-> TRUE, optional |-> FALSE, ch |-> ""]
        ELSE escapeRegExp(mask[i])]

RegexStr(mask) ==
    [i \in 1..Len(mask) |->
        IF mask[i] = placeholderChar THEN [digit |-> TRUE, optional |-> TRUE, ch |-> ""]
        ELSE escapeRegExp(mask[i])]

PlaceholderIndices(mask) == {i \in 0..(Len(mask) - 1) : mask[i + 1] = placeholderChar}

\* Number of placeholders at mask indices below pos
PlaceholdersBelow(mask, pos) == Cardinality({i \in PlaceholderIndices(mask) : i < pos})

parseMask(mask) ==
    LET digitCount == Cardinality(PlaceholderIndices(mask))
    IN  [regex |-> RegexStr(mask),
         placeholders |->
            [k \in 1..digitCount |->
                [index |-> CHOOSE i \in PlaceholderIndices(mask) :
                               PlaceholdersBelow(mask, i) = k - 1,
                 charIndex |-> k - 1]],
         mask |-> mask,
         placeholderChar |-> placeholderChar,
         digitCount |-> digitCount]

\* regex.test(s) for the anchored pattern ^...$ : r is the next pattern
\* element, j the next character of s (both 1-based).
RECURSIVE RegexMatchFrom(_, _, _, _)
RegexMatchFrom(regex, r, s, j) ==
    IF r > Len(regex) THEN j > Len(s)
    ELSE IF regex[r].digit
         THEN \/ j <= Len(s) /\ IsDigit(s[j]) /\ RegexMatchFrom(regex, r + 1, s, j + 1)
              \/ regex[r].optional /\ RegexMatchFrom(regex, r + 1, s, j)
         ELSE j <= Len(s) /\ s[j] = regex[r].ch /\ RegexMatchFrom(regex, r + 1, s, j + 1)

RegexTest(regex, s) == RegexMatchFrom(regex, 1, s, 1)

----------------------------------------------------------------------------
(* PhoneNumberMask: rendering and best-template selection *)

\* The inner loop of handleInput and setValue: i is the mask index,
\* digitIndex the next digit to consume.
RECURSIVE FormatLoop(_, _, _, _, _)
FormatLoop(maskData, digits, i, digitIndex, formatted) ==
    IF i >= Len(maskData.mask) THEN formatted
    ELSE IF maskData.mask[i + 1] = maskData.placeholderChar
         THEN IF digitIndex < Len(digits)
              THEN FormatLoop(maskData, digits, i + 1, digitIndex + 1,
                              Append(formatted, digits[digitIndex + 1]))
              ELSE FormatLoop(maskData, digits, i + 1, digitIndex, formatted)
         ELSE FormatLoop(maskData, digits, i + 1, digitIndex,
                         Append(formatted, maskData.mask[i + 1]))

\* A rendering that stops at the first placeholder left without a digit.
RECURSIVE FormatLoopStopping(_, _, _, _, _)
FormatLoopStopping(maskData, digits, i, digitIndex, formatted) ==
    IF i >= Len(maskData.mask) THEN formatted
    ELSE IF maskData.mask[i + 1] = maskData.placeholderChar
         THEN IF digitIndex < Len(digits)
              THEN FormatLoopStopping(maskData, digits, i + 1, digitIndex + 1,
                                      Append(formatted, digits[digitIndex + 1]))
              ELSE formatted
         ELSE FormatLoopStopping(maskData, digits, i + 1, digitIndex,
                                 Append(formatted, maskData.mask[i + 1]))

FormatStopping(maskData, digits) == FormatLoopStopping(maskData, digits, 0, 0, <<>>)

\* A rendering that keeps consuming digits past the template's placeholders.
FormatKeepingSurplus(maskData, digits) ==
    FormatLoop(maskData, digits, 0, 0, <<>>) \o SliceFrom(digits, maskData.digitCount)

\* `formatted` of one candidate
Format(maskData, digits) == FormatLoop(maskData, digits, 0, 0, <<>>)

\* bestMatchDiff starts at Infinity: no difference is below nothing.
Infinity == -1

DiffBelowOrEqual(diff, bestMatchDiff) == bestMatchDiff = Infinity \/ diff <= bestMatchDiff

\* diff < bestMatchDiff
DiffBelow(diff, bestMatchDiff) == bestMatchDiff = Infinity \/ diff < bestMatchDiff

\* The outer loop of handleInput and setValue over the candidates.
RECURSIVE MaskLoop(_, _, _, _)
MaskLoop(md, digits, maskIndex, best) ==
    IF maskIndex >= Len(md) THEN best
    ELSE LET maskData == md[maskIndex + 1]
             formatted == Format(maskData, digits)
             diff == Abs(maskData.digitCount - Len(digits))
         IN  IF RegexTest(maskData.regex, formatted) /\ DiffBelow(diff, best.bestMatchDiff)
             THEN MaskLoop(md, digits, maskIndex + 1,
                           [bestMatchIndex |-> maskIndex, bestMatchDiff |-> diff,
                            bestFormatted |-> formatted])
             ELSE MaskLoop(md, digits, maskIndex + 1, best)

BestMatch(md, digits) ==
    MaskLoop(md, digits, 0,
             [bestMatchIndex |-> -1, bestMatchDiff |-> Infinity, bestFormatted |-> <<>>])

----------------------------------------------------------------------------
(* PhoneNumberMask: messages *)

\* Locale tags are sequences of subtags: <<"pt", "BR">> is 'pt-BR'.
DEFAULT_MESSAGES ==
    [tag \in {<<"en">>, <<"en", "US">>, <<"pt">>, <<"pt", "BR">>, <<"es">>, <<"fr">>, <<"de">>} |->
        CASE tag \in {<<"en">>, <<"en", "US">>} -> "Please enter a valid phone number."
          [] tag \in {<<"pt">>, <<"pt", "BR">>} -> "Digite um numero de telefone valido."
          [] tag = <<"es">> -> "Ingrese un numero de telefono valido."
          [] tag = <<"fr">> -> "Veuillez entrer un numero de telephone valide."
          [] tag = <<"de">> -> "Bitte geben Sie eine gueltige Telefonnummer ein."]

\* messages[tag] is truthy
HasMessage(msgs, tag) == tag \in DOMAIN msgs /\ msgs[tag] # ""

RECURSIVE LanguageLoop(_, _, _)
LanguageLoop(msgs, userLanguages, k) ==
    IF k > Len(userLanguages)
    THEN IF HasMessage(msgs, <<"en">>) THEN msgs[<<"en">>] ELSE DEFAULT_MESSAGES[<<"en">>]
    ELSE LET language == userLanguages[k]
             generalLanguage == <<language[1]>>
         IN  IF HasMessage(msgs, language) THEN msgs[language]
             ELSE IF HasMessage(msgs, generalLanguage) THEN msgs[generalLanguage]
             ELSE LanguageLoop(msgs, userLanguages, k + 1)

getErrorMessage == LanguageLoop(messages, languages, 1)

----------------------------------------------------------------------------
(* PhoneNumberMask: the field and the methods that rewrite it.  A field    *)
(* record st holds value, selectionStart, selectionEnd, activeMaskIndex,   *)
(* customValidity and the two history fields of the selection loop.        *)

Field ==
    [value |-> value, selectionStart |-> selectionStart, selectionEnd |-> selectionEnd,
     activeMaskIndex |-> activeMaskIndex, customValidity |-> customValidity,
     seenDigits |-> seenDigits, seenFormatted |-> seenFormatted]

\* Assigning input.value: the text entry cursor moves to the end when the
\* text changes.
AssignValue(st, text) ==
    IF text = st.value THEN st
    ELSE [st EXCEPT !.value = text, !.selectionStart = Len(text), !.selectionEnd = Len(text)]

\* input.setSelectionRange(pos, pos): offsets beyond the text are clamped.
setSelectionRange(st, pos) ==
    [st EXCEPT !.selectionStart = Min(pos, Len(st.value)),
               !.selectionEnd = Min(pos, Len(st.value))]

\* mask[i]: undefined outside the mask
MaskCharAt(mask, i) == IF i >= 0 /\ i < Len(mask) THEN mask[i + 1] ELSE "undefined"

getUnmaskedValueOf(text) == StripNonDigits(text)

\* The message validateInput sets for the active template maskData
Validity(maskData, text) ==
    LET isValidRegex == RegexTest(maskData.regex, text)
        unmaskedValue == getUnmaskedValueOf(text)
        isValidDigitCount == Len(unmaskedValue) = maskData.digitCount
    IN  IF isValidRegex /\ isValidDigitCount THEN "" ELSE getErrorMessage

\* A validation that trusts the matcher alone.
validateInputByRegexOnly(st) ==
    IF st.activeMaskIndex # -1
    THEN [st EXCEPT !.customValidity =
            IF RegexTest(masksData[st.activeMaskIndex + 1].regex, st.value)
            THEN "" ELSE getErrorMessage]
    ELSE [st EXCEPT !.customValidity = IF st.value # <<>> THEN "" ELSE getErrorMessage]

validateInput(st) ==
    IF st.activeMaskIndex # -1
    THEN [st EXCEPT !.customValidity = Validity(masksData[st.activeMaskIndex + 1], st.value)]
    ELSE [st EXCEPT !.customValidity = IF st.value # <<>> THEN "" ELSE getErrorMessage]

\* The part handleInput and setValue share: the selection loop over the
\* candidates, the assignment of the field and the validation.
SelectAndShow(st, digits) ==
    LET best == BestMatch(masksData, digits)
        shown == IF best.bestMatchIndex # -1
                    /\ RegexTest(masksData[best.bestMatchIndex + 1].regex, best.bestFormatted)
                 THEN best.bestFormatted ELSE digits
        st1 == [st EXCEPT !.activeMaskIndex = best.bestMatchIndex,
                          !.seenDigits = digits,
                          !.seenFormatted =
                              [k \in 1..Len(masksData) |-> Format(masksData[k], digits)]]
    IN  validateInput(AssignValue(st1, shown))

\* setValue(null), setValue(undefined)
Null == <<"null">>

setValue(st, v) ==
    IF v = Null \/ v = <<>>
    THEN validateInput([AssignValue(st, <<>>) EXCEPT !.activeMaskIndex = -1,
                                                     !.seenDigits = <<>>,
                                                     !.seenFormatted = <<>>])
    ELSE SelectAndShow(st, StripNonDigits(v))

RECURSIVE SkipLiterals(_, _, _)
SkipLiterals(mask, pos, limit) ==
    IF pos < limit /\ MaskCharAt(mask, pos) # placeholderChar
    THEN SkipLiterals(mask, pos + 1, limit)
    ELSE pos

adjustCursorPosition(st) ==
    IF st.activeMaskIndex # -1
    THEN setSelectionRange(st, SkipLiterals(masksData[st.activeMaskIndex + 1].mask,
                                            st.selectionStart, Len(st.value)))
    ELSE st

\* handleInput for an input event the handler does not ignore; st.value is
\* event.target.value, the text the browser has already edited.
handleInput(st) == adjustCursorPosition(SelectAndShow(st, StripNonDigits(st.value)))

handlePaste(st, pastedData) == adjustCursorPosition(setValue(st, StripNonDigits(pastedData)))

\* A conversion that counts every mask position, literal or not.
getCursorPosCountingLiterals(st, formattedCursorPos) == formattedCursorPos

getCursorPosInUnmaskedValue(st, formattedCursorPos) ==
    IF st.activeMaskIndex = -1 THEN formattedCursorPos
    ELSE PlaceholdersBelow(masksData[st.activeMaskIndex + 1].mask, formattedCursorPos)

RECURSIVE CursorLoop(_, _, _, _, _)
CursorLoop(mask, unmaskedCursorPos, i, unmaskedCount, formattedCursorPos) ==
    IF i >= Len(mask) THEN formattedCursorPos
    ELSE IF mask[i + 1] = placeholderChar
         THEN IF unmaskedCount = unmaskedCursorPos THEN i
              ELSE CursorLoop(mask, unmaskedCursorPos, i + 1, unmaskedCount + 1,
                              formattedCursorPos + 1)
         ELSE CursorLoop(mask, unmaskedCursorPos, i + 1, unmaskedCount,
                         formattedCursorPos + 1)

\* The formatted offset setCursorPositionInFormatted computes for the
\* active template before it hands it to setSelectionRange.
FormattedCursorPos(mask, unmaskedCursorPos) ==
    SkipLiterals(mask, CursorLoop(mask, unmaskedCursorPos, 0, 0, 0), Len(mask))

setCursorPositionInFormatted(st, unmaskedCursorPos) ==
    IF st.activeMaskIndex = -1 THEN setSelectionRange(st, unmaskedCursorPos)
    ELSE setSelectionRange(st, FormattedCursorPos(masksData[st.activeMaskIndex + 1].mask,
                                                  unmaskedCursorPos))

----------------------------------------------------------------------------
(* PhoneNumberMask: keydown *)

\* while (pos >= 0 && mask[pos] !== '#') pos--
RECURSIVE SeekBackward(_, _)
SeekBackward(mask, pos) ==
    IF pos >= 0 /\ MaskCharAt(mask, pos) # placeholderChar
    THEN SeekBackward(mask, pos - 1)
    ELSE pos

\* while (pos < mask.length && mask[pos] !== '#') pos++
SeekForward(mask, pos) == SkipLiterals(mask, pos, Len(mask))

Backspace == 8
Delete == 46

\* unmaskedValue.slice(0, k) + unmaskedValue.slice(k + 1)
RemoveAt(unmaskedValue, k) == Slice(unmaskedValue, 0, k) \o SliceFrom(unmaskedValue, k + 1)

Completed(st) == [field |-> st, raised |-> "none"]

\* The handler stops where it reads a property of the undefined maskData.
Throws(st) == [field |-> st, raised |-> "TypeError"]

\* The Backspace/Delete branch.  maskData is masksData[activeMaskIndex],
\* which is undefined while activeMaskIndex is -1.
DeleteKey(st, keyCode) ==
    LET start == st.selectionStart
        end == st.selectionEnd
        unmaskedValue == getUnmaskedValueOf(st.value)
        hasMaskData == st.activeMaskIndex # -1
        mask == masksData[st.activeMaskIndex + 1].mask
        Finish(newUnmaskedValue, cursorPos) ==
            Completed(setCursorPositionInFormatted(setValue(st, newUnmaskedValue), cursorPos))
    IN  IF start = end
        THEN IF keyCode = Backspace
             THEN IF start - 1 >= 0 /\ ~hasMaskData THEN Throws(st)
                  ELSE LET prevDigitPos == IF start - 1 >= 0
                                           THEN SeekBackward(mask, start - 1) ELSE start - 1
                       IN  IF prevDigitPos >= 0
                           THEN LET cursorPos == getCursorPosInUnmaskedValue(st, prevDigitPos)
                                IN  Finish(RemoveAt(unmaskedValue, cursorPos), cursorPos)
                           ELSE Finish(unmaskedValue, getCursorPosInUnmaskedValue(st, start))
             ELSE IF ~hasMaskData THEN Throws(st)
                  ELSE LET nextDigitPos == SeekForward(mask, start)
                       IN  IF nextDigitPos < Len(mask)
                           THEN Finish(RemoveAt(unmaskedValue,
                                                getCursorPosInUnmaskedValue(st, nextDigitPos)),
                                       getCursorPosInUnmaskedValue(st, start))
                           ELSE Finish(unmaskedValue, getCursorPosInUnmaskedValue(st, start))
        ELSE Finish(Slice(unmaskedValue, 0, getCursorPosInUnmaskedValue(st, start))
                        \o SliceFrom(unmaskedValue, getCursorPosInUnmaskedValue(st, end)),
                    getCursorPosInUnmaskedValue(st, start))

\* Every other key only has its default action prevented or allowed.
handleKeyDown(st, keyCode) ==
    IF keyCode = Backspace \/ keyCode = Delete THEN DeleteKey(st, keyCode)
    ELSE Completed(st)

----------------------------------------------------------------------------
(* PhoneNumberMask: getValue *)

\* String(Number(digits)): the decimal numeral without leading zeros
RECURSIVE NumberOf(_)
NumberOf(unmaskedValue) ==
    IF Len(unmaskedValue) > 1 /\ unmaskedValue[1] = "0" THEN NumberOf(Tail(unmaskedValue))
    ELSE unmaskedValue

getValue(st) ==
    IF st.value = <<>> THEN Null
    ELSE LET unmaskedValue == StripNonDigits(st.value)
         IN  IF Len(unmaskedValue) = 0 THEN Null ELSE NumberOf(unmaskedValue)

----------------------------------------------------------------------------
(* Bounds and the inputs drawn from them *)

MaxMaskLen == 2    \* longest template of the exhaustive candidate sets
MaxValueLen == 2   \* longest text given to setValue, paste or as initial value
MaxTypedLen == 3   \* longest field text an inserting input event delivers
MaxRawEdits == 1   \* consecutive input events that handleInput ignores
MaxOffset == 3     \* largest unmasked offset handed to setCursorPositionInFormatted

MaskChars == {"#", "-"}
ValueChars == {"1", "5", "-"}

DefaultMask ==
    <<"(", "#", "#", ")", " ", "#", "#", "#", "#", "#", "-", "#", "#", "#", "#">>
ShortMask ==
    <<"(", "#", "#", ")", " ", "#", "#", "#", "#", "-", "#", "#", "#", "#">>
ExampleMasks == <<DefaultMask, ShortMask>>

ElevenDigits == <<"1", "1", "9", "9", "9", "9", "9", "9", "9", "9", "9">>
TenDigits == <<"1", "1", "9", "9", "9", "9", "9", "9", "9", "9">>

\* The candidate lists (options.masks) a mask is constructed with
MaskLists ==
    {<<m>> : m \in SeqsUpTo(MaskChars, MaxMaskLen) \ {<<>>}}
    \cup {<<<<"#", "-", "#">>, <<"#", "-">>>>,
          <<<<"#", "-", "#">>, <<"#", "#">>>>,
          <<<<"#", "#">>, <<"#", "-", "#">>>>,
          <<<<"(", "#", "#", ")">>>>,
          <<<<"5", "#">>>>,
          <<<<"#", "5", "#">>>>}

Values == SeqsUpTo(ValueChars, MaxValueLen)

NoOffset == [unmasked |-> -1, formatted |-> -1]

NoKey == [keyCode |-> 0, start |-> 0, end |-> 0, value |-> <<>>, activeMaskIndex |-> -1,
          repeat |-> 0]

----------------------------------------------------------------------------
(* PhoneNumberMask: construction *)

\* { ...a, ...b }: the properties of b override those of a
Spread(a, b) == [k \in DOMAIN a \cup DOMAIN b |-> IF k \in DOMAIN b THEN b[k] ELSE a[k]]

\* An options argument without properties
NoOptions == <<>>

\* this.options: the defaults, the default messages spread with the
\* caller's, and then the caller's options spread over all of it.
Options(options) ==
    Spread([masks |-> <<DefaultMask>>,
            messages |-> Spread(DEFAULT_MESSAGES,
                                IF "messages" \in DOMAIN options THEN options["messages"]
                                ELSE NoOptions)],
           options)

\* The field as the constructor finds it, before the initial value is masked
FreshField(initialValue) ==
    [value |-> initialValue, selectionStart |-> Len(initialValue),
     selectionEnd |-> Len(initialValue), activeMaskIndex |-> -1, customValidity |-> "",
     seenDigits |-> <<>>, seenFormatted |-> <<>>]

Shows(st) ==
    /\ value = st.value
    /\ selectionStart = st.selectionStart
    /\ selectionEnd = st.selectionEnd
    /\ activeMaskIndex = st.activeMaskIndex
    /\ customValidity = st.customValidity
    /\ seenDigits = st.seenDigits
    /\ seenFormatted = st.seenFormatted

\* new PhoneNumberMask(field, options) on a field that holds initialValue,
\* in a browser whose navigator.languages is userLanguages
constructor(options, userLanguages, initialValue) ==
    /\ callerOptions = options
    /\ masksData = [k \in 1..Len(Options(options)["masks"]) |->
                        parseMask(Options(options)["masks"][k])]
    /\ messages = Options(options)["messages"]
    /\ languages = userLanguages
    /\ Shows(IF initialValue # <<>> THEN setValue(FreshField(initialValue), initialValue)
             ELSE FreshField(initialValue))
    /\ raised = "none"
    /\ lastOp = "constructor"
    /\ lastText = <<>>
    /\ lastOffset = NoOffset
    /\ rawEdits = 0
    /\ lastKey = NoKey

PhoneInit ==
    \E masks \in MaskLists, initialValue \in Values :
        constructor([masks |-> masks], <<<<"en", "US">>>>, initialValue)

\* The messages options and the navigator.languages of the message lookup
CallerMessages ==
    {[tag \in {<<"pt", "BR">>} |-> "Numero invalido."],
     [tag \in {<<"en">>, <<"de", "AT">>} |-> "Invalid number."]}
LanguageLists ==
    {<<<<"de">>>>, <<<<"de", "AT">>, <<"fr">>>>, <<<<"pt", "BR">>>>, <<<<"it">>, <<"es", "MX">>>>}

PhoneInitMessages ==
    \E options \in {[masks |-> <<<<"#", "-", "#">>>>]}
                   \cup {[masks |-> <<<<"#", "-", "#">>>>, messages |-> m] : m \in CallerMessages},
       userLanguages \in LanguageLists, initialValue \in Values :
        constructor(options, userLanguages, initialValue)

----------------------------------------------------------------------------
(* PhoneNumberMask: the events and calls *)

Becomes(st) ==
    /\ value' = st.value
    /\ selectionStart' = st.selectionStart
    /\ selectionEnd' = st.selectionEnd
    /\ activeMaskIndex' = st.activeMaskIndex
    /\ customValidity' = st.customValidity
    /\ seenDigits' = st.seenDigits
    /\ seenFormatted' = st.seenFormatted

\* The user's selection [a, b) at the time of an event
Selections == {ab \in (0..Len(value)) \X (0..Len(value)) : ab[1] <= ab[2]}

Selected(a, b) == [Field EXCEPT !.selectionStart = a, !.selectionEnd = b]

\* The browser's own edit of the field, made before the input event is
\* dispatched: text typed or dropped over the selection ...
BrowserInsert(st, text) ==
    [st EXCEPT !.value = Slice(st.value, 0, st.selectionStart) \o text
                            \o SliceFrom(st.value, st.selectionEnd),
               !.selectionStart = st.selectionStart + Len(text),
               !.selectionEnd = st.selectionStart + Len(text)]

\* ... or the selection (else the character before or after the cursor) removed.
BrowserDelete(st, inputType) ==
    LET a == st.selectionStart
        b == st.selectionEnd
        from == IF a < b THEN a
                ELSE IF inputType = "deleteContentBackward" /\ a > 0 THEN a - 1 ELSE a
        to == IF a < b THEN b
              ELSE IF inputType = "deleteContentForward" /\ a < Len(st.value) THEN a + 1 ELSE a
    IN  [st EXCEPT !.value = Slice(st.value, 0, from) \o SliceFrom(st.value, to),
                   !.selectionStart = from, !.selectionEnd = from]

\* An input event handleInput acts on: typing, or cutting the selection
InputHandled ==
    \E ab \in Selections, inputType \in {"insertText", "deleteByCut"}, key \in ValueChars :
        LET edited == IF inputType = "insertText"
                      THEN BrowserInsert(Selected(ab[1], ab[2]), <<key>>)
                      ELSE BrowserDelete(Selected(ab[1], ab[2]), inputType)
        IN  /\ inputType = "insertText" => Len(edited.value) <= MaxTypedLen
            /\ inputType = "deleteByCut" => ab[1] < ab[2] /\ key = "1"
            /\ Becomes(handleInput(edited))
            /\ lastOp' = "input"
            /\ lastText' = edited.value
            /\ rawEdits' = 0
            /\ raised' = "none"
            /\ lastOffset' = NoOffset
            /\ lastKey' = NoKey
            /\ UNCHANGED <<callerOptions, masksData, messages, languages, moneyVars>>

\* An input event handleInput returns from at once: the browser's edit stays
InputIgnored ==
    \E ab \in Selections, inputType \in {"deleteContentBackward", "deleteContentForward"} :
        LET edited == BrowserDelete(Selected(ab[1], ab[2]), inputType)
        IN  /\ rawEdits < MaxRawEdits
            /\ edited.value # value
            /\ Becomes(edited)
            /\ lastOp' = "inputIgnored"
            /\ lastText' = <<>>
            /\ rawEdits' = rawEdits + 1
            /\ raised' = "none"
            /\ lastOffset' = NoOffset
            /\ lastKey' = NoKey
            /\ UNCHANGED <<callerOptions, masksData, messages, languages, moneyVars>>

Input == InputHandled \/ InputIgnored

\* A keydown of Backspace or Delete; on every other key the handler leaves
\* the field as it is.
KeyDown ==
    \E ab \in Selections, keyCode \in {Backspace, Delete} :
        LET r == handleKeyDown(Selected(ab[1], ab[2]), keyCode)
        IN  /\ Becomes(r.field)
            /\ raised' = r.raised
            /\ lastOp' = "keydown"
            /\ lastText' = <<>>
            /\ rawEdits' = IF r.raised = "none" THEN 0 ELSE rawEdits
            /\ lastOffset' = NoOffset
            /\ lastKey' = [keyCode |-> keyCode, start |-> ab[1], end |-> ab[2],
                           value |-> value, activeMaskIndex |-> activeMaskIndex,
                           repeat |-> 0]
            /\ UNCHANGED <<callerOptions, masksData, messages, languages, moneyVars>>

Paste ==
    \E pastedData \in Values :
        /\ Becomes(handlePaste(Field, pastedData))
        /\ lastOp' = "paste"
        /\ lastText' = <<>>
        /\ rawEdits' = 0
        /\ raised' = "none"
        /\ lastOffset' = NoOffset
        /\ lastKey' = NoKey
        /\ UNCHANGED <<callerOptions, masksData, messages, languages, moneyVars>>

\* handleBlur, which is a call of validateInput
Blur ==
    /\ Becomes(validateInput(Field))
    /\ lastOp' = "blur"
    /\ lastText' = <<>>
    /\ raised' = "none"
    /\ lastOffset' = NoOffset
    /\ lastKey' = NoKey
    /\ UNCHANGED <<callerOptions, masksData, messages, languages, rawEdits, moneyVars>>

SetValue ==
    \E v \in Values \cup {Null} :
        /\ Becomes(setValue(Field, v))
        /\ lastOp' = "setValue"
        /\ lastText' = v
        /\ rawEdits' = 0
        /\ raised' = "none"
        /\ lastOffset' = NoOffset
        /\ lastKey' = NoKey
        /\ UNCHANGED <<callerOptions, masksData, messages, languages, moneyVars>>

SetCursorPositionInFormatted ==
    \E unmaskedCursorPos \in 0..MaxOffset :
        /\ Becomes(setCursorPositionInFormatted(Field, unmaskedCursorPos))
        /\ lastOffset' =
              [unmasked |-> unmaskedCursorPos,
               formatted |-> IF activeMaskIndex = -1 THEN unmaskedCursorPos
                             ELSE FormattedCursorPos(masksData[activeMaskIndex + 1].mask,
                                                     unmaskedCursorPos)]
        /\ lastOp' = "setCursorPositionInFormatted"
        /\ lastText' = <<>>
        /\ raised' = "none"
        /\ lastKey' = NoKey
        /\ UNCHANGED <<callerOptions, masksData, messages, languages, rawEdits, moneyVars>>

----------------------------------------------------------------------------
(* MoneyMask: numbers.  A Number that has a short decimal numeral is the   *)
(* record [nan, negative, int, frac]: frac is the sequence of its          *)
(* fractional digits without trailing zeros, and -0 is 0.                  *)

DigitValue(c) == CHOOSE k \in 0..9 : DigitChars[k + 1] = c

RECURSIVE IntOf(_)
IntOf(numeral) ==
    IF numeral = <<>> THEN 0
    ELSE 10 * IntOf(SubSeq(numeral, 1, Len(numeral) - 1)) + DigitValue(numeral[Len(numeral)])

RECURSIVE NumeralOf(_)
NumeralOf(n) ==
    IF n < 10 THEN <<DigitChars[n + 1]>>
    ELSE Append(NumeralOf(n \div 10), DigitChars[(n % 10) + 1])

RECURSIVE Pow10(_)
Pow10(p) == IF p = 0 THEN 1 ELSE 10 * Pow10(p - 1)

RECURSIVE DropTrailingZeros(_)
DropTrailingZeros(numeral) ==
    IF numeral # <<>> /\ numeral[Len(numeral)] = "0"
    THEN DropTrailingZeros(SubSeq(numeral, 1, Len(numeral) - 1))
    ELSE numeral

\* n as numeral of exactly p digits (n < 10^p)
RECURSIVE Padded(_, _)
Padded(n, p) == IF p = 0 THEN <<>> ELSE Append(Padded(n \div 10, p - 1), DigitChars[(n % 10) + 1])

NaN == [nan |-> TRUE, negative |-> FALSE, int |-> 0, frac |-> <<>>]

Number(negative, int, frac) ==
    [nan |-> FALSE, negative |-> negative /\ (int # 0 \/ frac # <<>>), int |-> int,
     frac |-> frac]

\* String(x)
String(x) ==
    (IF x.negative THEN <<"-">> ELSE <<>>) \o NumeralOf(x.int)
        \o (IF x.frac = <<>> THEN <<>> ELSE <<".">> \o x.frac)

Contains(text, c) == \E k \in 1..Len(text) : text[k] = c

\* text.replace(/-/g, '')
Without(text, c) == LET Keep(d) == d # c IN SelectSeq(text, Keep)

\* Index (1-based) of the first c in text, 0 if there is none
RECURSIVE FirstIndex(_, _, _)
FirstIndex(text, c, k) ==
    IF k > Len(text) THEN 0 ELSE IF text[k] = c THEN k ELSE FirstIndex(text, c, k + 1)

\* parseFloat of a text of digits with at most one '.'
parseFloat(text) ==
    LET dot == FirstIndex(text, ".", 1)
        whole == IF dot = 0 THEN text ELSE SubSeq(text, 1, dot - 1)
        rest == IF dot = 0 THEN <<>> ELSE SubSeq(text, dot + 1, Len(text))
    IN  IF whole = <<>> /\ rest = <<>> THEN NaN
        ELSE Number(FALSE, IntOf(whole), DropTrailingZeros(rest))

Negated(x) == IF x.nan THEN x ELSE Number(~x.negative, x.int, x.frac)

----------------------------------------------------------------------------
(* MoneyMask *)

Euro == "EUR"   \* the one character U+20AC

MoneyDefaults ==
    [decimal |-> ",", thousands |-> ".", precision |-> 2, prefix |-> <<Euro, " ">>,
     allowNegative |-> TRUE, selectOnFocus |-> FALSE]

\* extractNumericValue: digits and the decimal character are kept, and of
\* several decimal characters only the first.
extractNumericValue(text) ==
    LET Kept(c) == IsDigit(c) \/ c = mOptions.decimal
        numeric == SelectSeq(text, Kept)
        first == FirstIndex(numeric, mOptions.decimal, 1)
    IN  IF first = 0 THEN numeric
        ELSE SubSeq(numeric, 1, first)
                \o Without(SubSeq(numeric, first + 1, Len(numeric)), mOptions.decimal)

\* parts[0].replace(/\B(?=(\d{3})+(?!\d))/g, thousands)
RECURSIVE WithThousands(_)
WithThousands(numeral) ==
    IF Len(numeral) <= 3 THEN numeral
    ELSE WithThousands(SubSeq(numeral, 1, Len(numeral) - 3))
            \o <<mOptions.thousands>> \o SubSeq(numeral, Len(numeral) - 2, Len(numeral))

\* A formatting that writes the minus sign in front of the prefix.
formatValueMinusFirst(text) ==
    IF text = <<>> THEN <<>>
    ELSE LET isNegative == mOptions.allowNegative /\ text[1] = "-"
             numeric == StripNonDigits(text)
             scaled == IntOf(numeric)
             unit == Pow10(mOptions.precision)
             whole == WithThousands(NumeralOf(scaled \div unit))
             parts == IF mOptions.precision = 0 THEN whole
                      ELSE whole \o <<mOptions.decimal>>
                                 \o Padded(scaled % unit, mOptions.precision)
         IN  IF numeric = <<>>
             THEN IF isNegative THEN <<"-">> \o mOptions.prefix ELSE <<>>
             ELSE (IF isNegative THEN <<"-">> ELSE <<>>) \o mOptions.prefix \o parts

\* formatValue: the digits of the argument are read as a count of the
\* smallest unit, 10^-precision.
formatValue(text) ==
    IF text = <<>> THEN <<>>
    ELSE LET isNegative == mOptions.allowNegative /\ text[1] = "-"
             numeric == StripNonDigits(text)
             scaled == IntOf(numeric)
             unit == Pow10(mOptions.precision)
             whole == WithThousands(NumeralOf(scaled \div unit))
             parts == IF mOptions.precision = 0 THEN whole
                      ELSE whole \o <<mOptions.decimal>>
                                 \o Padded(scaled % unit, mOptions.precision)
         IN  IF numeric = <<>>
             THEN IF isNegative THEN mOptions.prefix \o <<"-">> ELSE <<>>
             ELSE mOptions.prefix \o (IF isNegative THEN <<"-">> ELSE <<>>) \o parts

\* text.replace(decimal, '.'): the first occurrence
DecimalToPoint(text) ==
    LET first == FirstIndex(text, mOptions.decimal, 1)
    IN  IF first = 0 THEN text ELSE [text EXCEPT ![first] = "."]

moneyGetValue(text) ==
    LET isNegative == mOptions.allowNegative /\ Contains(text, "-")
        numericValue == extractNumericValue(Without(text, "-"))
        x == parseFloat(DecimalToPoint(numericValue))
    IN  IF isNegative THEN Negated(x) ELSE x

moneySetValue(x) ==
    LET strValue == String(x)
        isNegative == mOptions.allowNegative /\ strValue # <<>> /\ strValue[1] = "-"
        numeric == Without(strValue, "-")
    IN  formatValue(IF isNegative THEN <<"-">> \o numeric ELSE numeric)

moneyHandleInput(text) ==
    LET wantsNegative == mOptions.allowNegative /\ Contains(text, "-")
        numericValue == extractNumericValue(Without(text, "-"))
    IN  formatValue(IF wantsNegative THEN <<"-">> \o numericValue ELSE numericValue)


moneyHandleBlur(text) ==
    LET isNegative == mOptions.allowNegative /\ Contains(text, "-")
        numericValue == extractNumericValue(Without(text, "-"))
    IN  formatValue(IF isNegative THEN <<"-">> \o numericValue ELSE numericValue)

MaxPrecision == 2   \* largest precision option
MaxWhole == 3       \* largest whole part of the exhaustive amounts
MaxMoneyLen == 4    \* longest field text an input event of the money field delivers

FracDigits == {"0", "9"}
MoneyKeys == {"1", "0", "-", ","}

\* The amounts of at most p fractional digits
Amounts(p) ==
    {Number(negative, int, frac) :
        negative \in BOOLEAN,
        int \in (0..MaxWhole) \cup {1999, 2000},
        frac \in {f \in SeqsUpTo(FracDigits, p) : f = <<>> \/ f[Len(f)] # "0"}}

NoAmount == NaN

\* The prefix options a money mask is constructed with
Prefixes == {<<Euro, " ">>, <<>>}

MoneyInit ==
    /\ mOptions \in {[MoneyDefaults EXCEPT !.precision = p, !.allowNegative = n,
                                            !.prefix = x] :
                        p \in 0..MaxPrecision, n \in BOOLEAN, x \in Prefixes}
    /\ mValue = <<>>
    /\ mReturned = NoAmount
    /\ mLastOp = "constructor"
    /\ mLastArg = NoAmount

MoneyIdle ==
    /\ mOptions = MoneyDefaults
    /\ mValue = <<>>
    /\ mReturned = NoAmount
    /\ mLastOp = "constructor"
    /\ mLastArg = NoAmount

PhoneIdle == constructor(NoOptions, <<<<"en", "US">>>>, <<>>)

MoneySetValue ==
    \E x \in Amounts(mOptions.precision) :
        /\ mValue' = moneySetValue(x)
        /\ mLastOp' = "setValue"
        /\ mLastArg' = x
        /\ mReturned' = NoAmount
        /\ UNCHANGED <<mOptions, phoneVars>>

MoneyGetValue ==
    /\ mReturned' = moneyGetValue(mValue)
    /\ mLastOp' = "getValue"
    /\ UNCHANGED <<mOptions, mValue, mLastArg, phoneVars>>

\* An input event of the money field: the browser has inserted a typed
\* character at, or removed the character before, position k.
MoneyInput ==
    \E k \in 0..Len(mValue), inserts \in BOOLEAN, key \in MoneyKeys :
        LET edited == IF inserts
                      THEN Slice(mValue, 0, k) \o <<key>> \o SliceFrom(mValue, k)
                      ELSE Slice(mValue, 0, k - 1) \o SliceFrom(mValue, k)
        IN  /\ inserts => Len(edited) <= MaxMoneyLen
            /\ ~inserts => k > 0 /\ key = "1"
            /\ mValue' = moneyHandleInput(edited)
            /\ mLastOp' = "input"
            /\ mLastArg' = NoAmount
            /\ mReturned' = NoAmount
            /\ UNCHANGED <<mOptions, phoneVars>>

MoneyBlur ==
    /\ mValue' = moneyHandleBlur(mValue)
    /\ mLastOp' = "blur"
    /\ mLastArg' = NoAmount
    /\ mReturned' = NoAmount
    /\ UNCHANGED <<mOptions, phoneVars>>

----------------------------------------------------------------------------
(* Specifications *)

Init == PhoneInit /\ MoneyIdle

Next ==
    \/ Input
    \/ KeyDown
    \/ Paste
    \/ Blur
    \/ SetValue
    \/ SetCursorPositionInFormatted

Spec == Init /\ [][Next]_vars

InitMoney == PhoneIdle /\ MoneyInit

NextMoney ==
    \/ MoneySetValue
    \/ MoneyGetValue
    \/ MoneyInput
    \/ MoneyBlur

SpecMoney == InitMoney /\ [][NextMoney]_vars

\* Backspace held down: the first keydown finds the cursor at the end of
\* the displayed text, every later one where the handler before it left it.
\* lastKey.repeat tells a keydown from the one before it.
BackspaceHeld ==
    LET st == IF lastOp = "held" THEN Field ELSE Selected(Len(value), Len(value))
        r == handleKeyDown(st, Backspace)
    IN  /\ Becomes(r.field)
        /\ raised' = r.raised
        /\ lastOp' = "held"
        /\ lastText' = <<>>
        /\ rawEdits' = IF r.raised = "none" THEN 0 ELSE rawEdits
        /\ lastOffset' = NoOffset
        /\ lastKey' = [keyCode |-> Backspace, start |-> st.selectionStart,
                       end |-> st.selectionEnd, value |-> value,
                       activeMaskIndex |-> activeMaskIndex, repeat |-> 1 - lastKey.repeat]
        /\ UNCHANGED <<callerOptions, masksData, messages, languages, moneyVars>>

\* Any use of the field, until Backspace is held down
NextHeld ==
    \/ lastOp # "held" /\ Next
    \/ BackspaceHeld

\* The keyboard repeats the keydown for as long as the key is held: there
\* is always another BackspaceHeld step.  The handler accepts every keydown
\* and every keydown changes lastKey.repeat, so the step is always enabled
\* and this is the weak fairness of BackspaceHeld.
KeyRepeats == []<><<BackspaceHeld>>_vars

SpecHeld == Init /\ [][NextHeld]_vars /\ KeyRepeats

InitMessages == PhoneInitMessages /\ MoneyIdle

SpecMessages == InitMessages /\ [][Next]_vars

----------------------------------------------------------------------------
(* Properties of rendering and eligibility *)

\* The selection loop ran in the last operation that set the field
LoopRan == Len(seenFormatted) = Len(masksData)

\* The character the filled template T holds at 0-based index i: the
\* literal of T, or the digit of D bound to the placeholder.
FilledChar(mask, digits, i) ==
    IF mask[i + 1] = placeholderChar THEN digits[PlaceholdersBelow(mask, i) + 1]
    ELSE mask[i + 1]

\* The 0-based index of the first placeholder of T that D leaves unfilled
\* (for Len(D) < digitCount)
FirstUnfilled(mask, digits) ==
    CHOOSE i \in PlaceholderIndices(mask) : PlaceholdersBelow(mask, i) = Len(digits)

\* The filled template cut at the first unfilled placeholder
FilledPrefix(mask, digits) ==
    [k \in 1..FirstUnfilled(mask, digits) |-> FilledChar(mask, digits, k - 1)]

IsLiteral(c) == c # placeholderChar

\* The literal characters of T at and after 0-based index i, in order
LiteralsFrom(mask, i) == SelectSeq(SliceFrom(mask, i), IsLiteral)

\* C1 as stated: for len(D) < T.digitCount the rendered text of every
\* candidate T is the filled template cut exactly at the first unfilled
\* placeholder, so no literal of T after that placeholder appears in it.
C1_RenderStopsAtFirstUnfilled ==
    (LoopRan /\ lastOp \in {"input", "setValue"}) =>
        \A c \in 1..Len(masksData) :
            Len(seenDigits) < masksData[c].digitCount =>
                seenFormatted[c] = FilledPrefix(masksData[c].mask, seenDigits)

\* C1 as amended: for len(D) < T.digitCount the rendered text of every
\* candidate T agrees with the filled template up to the first unfilled
\* placeholder and continues with every literal of T that lies after that
\* placeholder, in order; only the unfilled placeholders are left out.
C1_RenderKeepsLaterLiterals ==
    LoopRan =>
        \A c \in 1..Len(masksData) :
            Len(seenDigits) < masksData[c].digitCount =>
                LET mask == masksData[c].mask
                IN  /\ seenFormatted[c] =
                          FilledPrefix(mask, seenDigits)
                              \o LiteralsFrom(mask, FirstUnfilled(mask, seenDigits))
                    /\ Len(seenFormatted[c]) =
                          Len(mask) - (masksData[c].digitCount - Len(seenDigits))

\* setValue has rendered a candidate that D does not fill, digits before
\* and a literal after its first unfilled placeholder, and shows that text.
C1_Witness ==
    /\ lastOp = "setValue"
    /\ LoopRan
    /\ activeMaskIndex # -1
    /\ seenDigits # <<>>
    /\ Len(seenDigits) < masksData[activeMaskIndex + 1].digitCount
    /\ LiteralsFrom(masksData[activeMaskIndex + 1].mask,
                    FirstUnfilled(masksData[activeMaskIndex + 1].mask, seenDigits)) # <<>>
    /\ value = seenFormatted[activeMaskIndex + 1]

\* A candidate is eligible when its rendered text matches its own matcher
Eligible(c) == RegexTest(masksData[c].regex, seenFormatted[c])

\* C2 as stated: a candidate T is eligible if and only if
\* len(D) >= T.digitCount, and a candidate with more placeholders than
\* there are digits is never the active template.
C2_EligibleIffFilled ==
    (LoopRan /\ lastOp \in {"input", "setValue"}) =>
        /\ \A c \in 1..Len(masksData) :
              Eligible(c) <=> Len(seenDigits) >= masksData[c].digitCount
        /\ activeMaskIndex # -1 =>
              masksData[activeMaskIndex + 1].digitCount <= Len(seenDigits)

\* C2 as amended: every candidate T is eligible for every digit sequence D,
\* whether or not len(D) >= T.digitCount (the matcher makes the digit of
\* each placeholder optional), so the selection always yields an active
\* template, which may have more placeholders than there are digits.
C2_AlwaysEligible ==
    LoopRan =>
        /\ \A c \in 1..Len(masksData) : Eligible(c)
        /\ activeMaskIndex # -1

\* A candidate with more placeholders than digits is the active template.
C2_Witness ==
    /\ lastOp \in {"input", "setValue"}
    /\ LoopRan
    /\ activeMaskIndex # -1
    /\ masksData[activeMaskIndex + 1].digitCount > Len(seenDigits)
    /\ Eligible(activeMaskIndex + 1)

\* C7: for len(D) >= T.digitCount the rendered text of every candidate T
\* has the length of T, holds T's literal at every literal position and,
\* at the placeholder positions from left to right, the first T.digitCount
\* characters of D; the text shown for the active template is that text.
C7_FullRender ==
    LoopRan =>
        /\ \A c \in 1..Len(masksData) :
              Len(seenDigits) >= masksData[c].digitCount =>
                  LET mask == masksData[c].mask
                  IN  /\ Len(seenFormatted[c]) = Len(mask)
                      /\ \A i \in 0..(Len(mask) - 1) :
                            seenFormatted[c][i + 1] =
                                IF mask[i + 1] = placeholderChar
                                THEN seenDigits[PlaceholdersBelow(mask, i) + 1]
                                ELSE mask[i + 1]
        /\ (lastOp \in {"input", "setValue", "paste"} /\ activeMaskIndex # -1) =>
              value = seenFormatted[activeMaskIndex + 1]

\* setValue has rendered more digits than the active template has
\* placeholders, and the template has a literal.
C7_Witness ==
    /\ lastOp = "setValue"
    /\ LoopRan
    /\ activeMaskIndex # -1
    /\ masksData[activeMaskIndex + 1].digitCount >= 1
    /\ Len(seenDigits) > masksData[activeMaskIndex + 1].digitCount
    /\ LiteralsFrom(masksData[activeMaskIndex + 1].mask, 0) # <<>>
    /\ Len(value) = Len(masksData[activeMaskIndex + 1].mask)

----------------------------------------------------------------------------
(* Properties of the empty field, of setValue against typing, of failures *)

\* C3 as stated: after an input event, a paste, a setValue or a
\* Backspace/Delete keydown that leaves no digit in the field, there is
\* no active template and the displayed text is empty.
C3_EmptyDigitsEmptyField ==
    (lastOp \in {"input", "paste", "setValue", "keydown"}
        /\ raised = "none"
        /\ getUnmaskedValueOf(value) = <<>>) =>
            (activeMaskIndex = -1 /\ value = <<>>)

\* C4 as stated: an input event whose field text is v leaves the displayed
\* text and the active template index that setValue(v) leaves.
C4_SetValueAsTyping ==
    lastOp = "input" =>
        LET viaSetValue == setValue(Field, lastText)
        IN  /\ value = viaSetValue.value
            /\ activeMaskIndex = viaSetValue.activeMaskIndex

\* C5 as stated: no handler or method raises after construction.
C5_NoHandlerRaises == raised = "none"

----------------------------------------------------------------------------
(* Properties of best-template selection *)

Diff(c) == Abs(masksData[c].digitCount - Len(seenDigits))

EligibleCandidates == {c \in 1..Len(masksData) : Eligible(c)}

ExampleData == [k \in 1..Len(ExampleMasks) |-> parseMask(ExampleMasks[k])]

\* With ["(##) #####-####", "(##) ####-####"], 11 digits select the first
\* template and 10 digits the second, shown as "(11) 9999-9999".
ExampleSelection ==
    /\ BestMatch(ExampleData, ElevenDigits).bestMatchIndex = 0
    /\ BestMatch(ExampleData, ElevenDigits).bestFormatted =
          <<"(", "1", "1", ")", " ", "9", "9", "9", "9", "9", "-", "9", "9", "9", "9">>
    /\ BestMatch(ExampleData, TenDigits).bestMatchIndex = 1
    /\ BestMatch(ExampleData, TenDigits).bestFormatted =
          <<"(", "1", "1", ")", " ", "9", "9", "9", "9", "-", "9", "9", "9", "9">>

\* C8: the active template is, among the eligible candidates, the one of
\* least |digitCount - len(D)|, and of several such the first in the
\* candidate list; the two example selections come out as stated.
C8_ClosestFirst ==
    /\ LoopRan =>
          IF EligibleCandidates = {} THEN activeMaskIndex = -1
          ELSE /\ activeMaskIndex + 1 \in EligibleCandidates
               /\ \A c \in EligibleCandidates :
                     \/ Diff(activeMaskIndex + 1) < Diff(c)
                     \/ Diff(activeMaskIndex + 1) = Diff(c) /\ activeMaskIndex + 1 <= c
    /\ ExampleSelection

\* Two eligible candidates tie on the difference and the first is active;
\* in another candidate list the later, closer candidate is active.
C8_Witness ==
    /\ lastOp \in {"input", "setValue"}
    /\ LoopRan
    /\ Len(masksData) = 2
    /\ EligibleCandidates = {1, 2}
    /\ Diff(1) = Diff(2)
    /\ masksData[1].mask # masksData[2].mask
    /\ activeMaskIndex = 0

----------------------------------------------------------------------------
(* Properties of the cursor conversions and of validation *)

\* C9: for the active template T and an unmasked offset k, the formatted
\* offset setCursorPositionInFormatted computes converts back, by
\* getCursorPosInUnmaskedValue, to min(k, T.digitCount), and is len(T) for
\* k >= T.digitCount; the cursor is put there (or at the end of a shorter
\* text).
C9_CursorRoundTrip ==
    (lastOp = "setCursorPositionInFormatted" /\ activeMaskIndex # -1) =>
        LET maskData == masksData[activeMaskIndex + 1]
        IN  /\ getCursorPosInUnmaskedValue(Field, lastOffset.formatted) =
                  Min(lastOffset.unmasked, maskData.digitCount)
            /\ lastOffset.unmasked >= maskData.digitCount =>
                  lastOffset.formatted = Len(maskData.mask)
            /\ selectionStart = Min(lastOffset.formatted, Len(value))
            /\ selectionEnd = selectionStart

\* An offset inside a template that has a literal before the placeholder
\* of that offset has been converted.
C9_Witness ==
    /\ lastOp = "setCursorPositionInFormatted"
    /\ activeMaskIndex # -1
    /\ lastOffset.unmasked >= 1
    /\ lastOffset.unmasked < masksData[activeMaskIndex + 1].digitCount
    /\ lastOffset.formatted > lastOffset.unmasked

FreshlyValidated ==
    /\ lastOp \in {"input", "paste", "setValue", "keydown", "blur"}
    /\ raised = "none"

\* "(11) 9999-9999" against "(##) #####-####": the literals align and the
\* digit count differs.
ExampleInvalid ==
    LET shown == <<"(", "1", "1", ")", " ", "9", "9", "9", "9", "-", "9", "9", "9", "9">>
    IN  /\ RegexTest(parseMask(DefaultMask).regex, shown)
        /\ Validity(parseMask(DefaultMask), shown) # ""

\* C10: with an active template T, validateInput leaves the field valid
\* if and only if the displayed text matches T's matcher and the number of
\* digits in the displayed text is T.digitCount; the example display is
\* invalid.
C10_ValidIffMatchAndCount ==
    /\ (FreshlyValidated /\ activeMaskIndex # -1) =>
          LET maskData == masksData[activeMaskIndex + 1]
          IN  customValidity = "" <=>
                  /\ RegexTest(maskData.regex, value)
                  /\ Len(StripNonDigits(value)) = maskData.digitCount
    /\ ExampleInvalid

\* A blur has validated a text that matches the active template's matcher
\* with a digit missing, and has marked it invalid.
C10_Witness ==
    /\ lastOp = "blur"
    /\ activeMaskIndex # -1
    /\ value # <<>>
    /\ RegexTest(masksData[activeMaskIndex + 1].regex, value)
    /\ Len(StripNonDigits(value)) # masksData[activeMaskIndex + 1].digitCount
    /\ customValidity # ""

----------------------------------------------------------------------------
(* Properties of MoneyMask *)

\* The amount x in the configured format: prefix, sign, whole part with
\* thousands separators, decimal character, fraction of `precision` digits
AmountText(x) ==
    mOptions.prefix \o (IF x.negative THEN <<"-">> ELSE <<>>)
        \o WithThousands(NumeralOf(x.int))
        \o (IF mOptions.precision = 0 THEN <<>>
            ELSE <<mOptions.decimal>> \o x.frac
                     \o [k \in 1..(mOptions.precision - Len(x.frac)) |-> "0"])

\* C6 as stated: setValue(x), for an amount x of at most `precision`
\* fractional digits (negative only where negatives are allowed), displays
\* x in the configured format, and a following getValue() returns x.
C6_SetValueRoundTrip ==
    (~mLastArg.nan /\ (mLastArg.negative => mOptions.allowNegative)) =>
        /\ mLastOp = "setValue" => mValue = AmountText(mLastArg)
        /\ mLastOp = "getValue" => mReturned = mLastArg

----------------------------------------------------------------------------
(* Properties of Backspace and Delete *)

\* The digits a displayed text holds in the placeholders of a template: the
\* text has n characters beyond the template's literals, and they sit in
\* the first n placeholders.
RECURSIVE BoundLoop(_, _, _, _, _)
BoundLoop(mask, text, i, j, n) ==
    IF i >= Len(mask) \/ j >= Len(text) THEN <<>>
    ELSE IF mask[i + 1] = placeholderChar
         THEN IF n > 0 THEN <<text[j + 1]>> \o BoundLoop(mask, text, i + 1, j + 1, n - 1)
              ELSE BoundLoop(mask, text, i + 1, j, 0)
         ELSE BoundLoop(mask, text, i + 1, j + 1, n)

BoundDigits(maskData, text) ==
    BoundLoop(maskData.mask, text, 0, 0,
              Len(text) - (Len(maskData.mask) - maskData.digitCount))

\* The text is what the template renders from the digits it holds
IsRendered(maskData, text) ==
    LET bound == BoundDigits(maskData, text)
    IN  /\ \A k \in 1..Len(bound) : IsDigit(bound[k])
        /\ Format(maskData, bound) = text

\* The field shows exactly the digit sequence D: rendered by its active
\* template with every literal in place, or empty when D is empty.
ShowsDigits(D) ==
    \/ D = <<>> /\ value = <<>> /\ activeMaskIndex = -1
    \/ /\ activeMaskIndex # -1
       /\ IsRendered(masksData[activeMaskIndex + 1], value)
       /\ BoundDigits(masksData[activeMaskIndex + 1], value) = D

\* The template and the digit sequence the last keydown found
KeyMaskData == masksData[lastKey.activeMaskIndex + 1]
KeyDigits == BoundDigits(KeyMaskData, lastKey.value)

\* The last operation was a completed Backspace or Delete on a field that
\* showed a rendering of its active template.
KeyOnRendered ==
    /\ lastOp = "keydown"
    /\ raised = "none"
    /\ lastKey.activeMaskIndex # -1
    /\ IsRendered(KeyMaskData, lastKey.value)

Max(S) == CHOOSE x \in S : \A y \in S : y <= x
Least(S) == CHOOSE x \in S : \A y \in S : x <= y

\* The placeholders in the deletion direction from cursor position c
PlaceholdersToward(keyCode, mask, c) ==
    {i \in PlaceholderIndices(mask) : IF keyCode = Backspace THEN i < c ELSE i >= c}

\* The digit sequence the claim expects after Backspace or Delete at c
ExpectedAfterKey(keyCode, mask, D, c) ==
    LET toward == PlaceholdersToward(keyCode, mask, c)
        nearest == IF keyCode = Backspace THEN Max(toward) ELSE Least(toward)
    IN  IF toward = {} THEN D ELSE RemoveAt(D, PlaceholdersBelow(mask, nearest))

\* With "(##) #####-####" and the cursor at 5, Backspace seeks to the
\* placeholder at index 2, which binds the digit at unmasked offset 1.
ExampleBackspace ==
    /\ SeekBackward(DefaultMask, 5 - 1) = 2
    /\ PlaceholdersBelow(DefaultMask, 2) = 1
    /\ RemoveAt(ElevenDigits, 1) = ExpectedAfterKey(Backspace, DefaultMask, ElevenDigits, 5)

\* C11: with an active template and no selection, Backspace at cursor
\* position c removes exactly the digit bound to the nearest placeholder
\* below c and Delete the digit bound to the nearest placeholder at or above
\* c; the field then shows the remaining digits with every literal in place.
C11_KeyRemovesBoundDigit ==
    /\ ExampleBackspace
    /\ (KeyOnRendered /\ lastKey.start = lastKey.end)
          => ShowsDigits(ExpectedAfterKey(lastKey.keyCode, KeyMaskData.mask, KeyDigits,
                                          lastKey.start))

\* The templates whose literals are not digits
NoDigitLiterals == \A k \in 1..Len(masksData) : \A i \in 1..Len(masksData[k].mask) :
                       ~IsDigit(masksData[k].mask[i])

\* The digits of D outside the unmasked offsets [u(start), u(end)), where u
\* counts the placeholders of the template below a position
ExpectedAfterSelection(mask, D, start, end) ==
    Slice(D, 0, PlaceholdersBelow(mask, start)) \o SliceFrom(D, PlaceholdersBelow(mask, end))

\* C12: with a non-empty selection [start, end), Backspace or Delete removes
\* exactly the digits at the unmasked offsets [u(start), u(end)); the other
\* digits are kept in order and the field is rendered from them.
C12_KeyRemovesSelectedDigits ==
    (KeyOnRendered /\ lastKey.start < lastKey.end)
        => ShowsDigits(ExpectedAfterSelection(KeyMaskData.mask, KeyDigits,
                                              lastKey.start, lastKey.end))

\* C16: with an active template (its literals not digits), a non-empty
\* digit sequence of any length up to digitCount, no selection and the
\* cursor at the end of the displayed text, one Backspace removes exactly
\* the last digit of the digit sequence.
C16_BackspaceAtEndRemovesLast ==
    (/\ KeyOnRendered
     /\ NoDigitLiterals
     /\ lastKey.keyCode = Backspace
     /\ lastKey.start = Len(lastKey.value)
     /\ lastKey.end = Len(lastKey.value)
     /\ KeyDigits # <<>>)
        => ShowsDigits(SubSeq(KeyDigits, 1, Len(KeyDigits) - 1))

----------------------------------------------------------------------------
(* Properties of the values read back *)

\* The digit sequence D of the last setValue or handled input event
GivenDigits == StripNonDigits(lastText)

\* The digits of D that were placed in the placeholders of the active
\* template: the first min(len(D), digitCount)
PlacedDigits ==
    IF activeMaskIndex = -1 THEN <<>>
    ELSE Slice(GivenDigits, 0, masksData[activeMaskIndex + 1].digitCount)

\* C13: after setValue(D) or typing D, getUnmaskedValue() returns exactly
\* the digits of D placed in placeholders, in order, and getValue() returns
\* null exactly when that sequence is empty; literals may be digits.
C13_UnmaskedIsPlacedDigits ==
    (lastOp \in {"setValue", "input"} /\ lastText # Null)
        => /\ getUnmaskedValueOf(value) = PlacedDigits
           /\ (getValue(Field) = Null) <=> (PlacedDigits = <<>>)

\* C15: for a single-template candidate set [T], digit literals allowed,
\* and every digit sequence D with len(D) = T.digitCount (T has a
\* placeholder, so D is not empty), the field is marked valid after
\* setValue(D).
C15_FullSetValueIsValid ==
    (/\ lastOp = "setValue"
     /\ Len(masksData) = 1
     /\ lastText # Null
     /\ lastText = GivenDigits
     /\ GivenDigits # <<>>
     /\ Len(GivenDigits) = masksData[1].digitCount)
        => customValidity = ""

----------------------------------------------------------------------------
(* Properties of the money field *)

MinusPositions == {k \in 1..Len(mValue) : mValue[k] = "-"}

----------------------------------------------------------------------------
(* Properties of the messages *)

\* The tag under which the lookup finds a built-in message for a language:
\* the language itself, else its general language
BuiltInTag(language) ==
    IF HasMessage(DEFAULT_MESSAGES, language) THEN language ELSE <<language[1]>>

\* The caller passed a messages option that has no message for the first
\* user language, for which there is a built-in message
NotOverridden ==
    /\ "messages" \in DOMAIN callerOptions
    /\ ~HasMessage(callerOptions["messages"], languages[1])
    /\ ~HasMessage(callerOptions["messages"], <<languages[1][1]>>)
    /\ HasMessage(DEFAULT_MESSAGES, BuiltInTag(languages[1]))

\* C17: when the caller passes a messages option, the built-in message of a
\* user language the caller did not override is the message getErrorMessage
\* returns, seen as the validity message of a field marked invalid.
C17_BuiltInMessagesStay ==
    (NotOverridden /\ lastOp # "constructor" /\ customValidity # "")
        => /\ getErrorMessage = DEFAULT_MESSAGES[BuiltInTag(languages[1])]
           /\ customValidity = DEFAULT_MESSAGES[BuiltInTag(languages[1])]

----------------------------------------------------------------------------
(* Properties of Backspace held down *)

\* Empty digit sequence, empty displayed text, no active template
Emptied == value = <<>> /\ activeMaskIndex = -1

\* The last press of the held Backspace found a field that was not empty
PressedOnText == lastOp = "held" /\ NoDigitLiterals /\ lastKey.value # <<>>

\* That press removed one digit or moved the cursor strictly left
PressProgressed ==
    \/ Len(getUnmaskedValueOf(value)) = Len(getUnmaskedValueOf(lastKey.value)) - 1
    \/ selectionStart < lastKey.start

\* C18: with templates whose literals are not digits, Backspace held down
\* from the cursor at the end of the displayed text eventually leaves the
\* field with an empty digit sequence, empty text and no active template,
\* and every press on the way removes one digit or moves the cursor
\* strictly left.
C18_HeldBackspaceEmpties ==
    /\ [](PressedOnText => PressProgressed)
    /\ (lastOp = "held" /\ NoDigitLiterals) ~> Emptied
====
